---------------------------- MODULE Spec2Model ----------------------------
(***************************************************************************)
(* Model of Utils/FluxBatch.py: the fixed-bin aligner (addFixedBins) and   *)
(* the adaptive bin merger and flux engine                                 *)
(* (combineFixedBinsAndComputeFlux).                                       *)
(*                                                                         *)
(* Number representation.  numpy arrays are functions over 0..n-1, Python  *)
(* lists are sequences.  Meteor counts are integers.  Time-area products   *)
(* are integers in units of 1e9 (so time_area_prod/1e9 is the integer      *)
(* itself).  Solar longitudes are integers in grid units.  A float that    *)
(* may be NaN is either the sentinel NaN (array entries) or a quotient     *)
(* record [num, den] (results of a division), where 0/0 is NaN.            *)
(***************************************************************************)
EXTENDS Integers, Sequences, FiniteSets, TLC

(***************************************************************************)
(* Bounds of the model                                                     *)
(***************************************************************************)
\* the largest number of fine bins of a grid
MaxBins == 3

(***************************************************************************)
(* Floats                                                                  *)
(***************************************************************************)
NaN == -1

IsNaN(x) == x = NaN

\* x*y on floats: NaN is absorbing
FMul(x, y) == IF IsNaN(x) \/ IsNaN(y) THEN NaN ELSE x * y

\* the float x/y for a float x and a float y >= 0, kept as a quotient;
\* NaN/y and 0/0 are NaN
Quot(x, y) == IF IsNaN(x) \/ IsNaN(y) THEN [num |-> 0, den |-> 0] ELSE [num |-> x, den |-> y]

NaNQ == [num |-> 0, den |-> 0]

IsNaNQ(q) == q.num = 0 /\ q.den = 0

\* q <= r on quotients with non-negative denominators; False when either is NaN
QLe(q, r) == ~IsNaNQ(q) /\ ~IsNaNQ(r) /\ q.den > 0 /\ r.den > 0 /\ q.num * r.den <= r.num * q.den

RECURSIVE SumRangeInclusive(_, _, _)
\* mutant: the slice takes its end index too
SumRangeInclusive(arr, a, b) == IF a > b THEN 0 ELSE arr[a] + SumRangeInclusive(arr, a + 1, b)

RECURSIVE SumRange(_, _, _)
\* np.sum(arr[a:b])
SumRange(arr, a, b) == IF a >= b THEN 0 ELSE arr[a] + SumRange(arr, a + 1, b)

RECURSIVE NanSumRange(_, _, _)
\* np.nansum(arr[a:b]): NaN entries count as 0
NanSumRange(arr, a, b) ==
    IF a >= b THEN 0
    ELSE (IF IsNaN(arr[a]) THEN 0 ELSE arr[a]) + NanSumRange(arr, a + 1, b)

(***************************************************************************)
(* scipy.stats.chi2.ppf(q, df)/2 in thousandths, tabulated for the         *)
(* confidence levels 0.95 and 0.5 (in percent) and df = 2k, k = 1..26 and  *)
(* k = 45, 46.  A df that is not > 0 fails scipy's argument check and      *)
(* yields NaN.                                                             *)
(***************************************************************************)
Chi2HalfUpper95 ==
    <<3689, 5572, 7225, 8767, 10242, 11668, 13059, 14423, 15763, 17085, 18390, 19682, 20962,
      22230, 23490, 24740, 25983, 27219, 28448, 29671, 30888, 32101, 33308, 34511, 35710, 36905>>

Chi2HalfLower95 ==
    <<25, 242, 619, 1090, 1623, 2202, 2814, 3454, 4115, 4795, 5491, 6201, 6922,
      7654, 8395, 9145, 9903, 10668, 11439, 12217, 12999, 13787, 14580, 15377, 16179>>

Chi2HalfUpper50 ==
    <<1386, 2693, 3920, 5109, 6274, 7423, 8558, 9684, 10802, 11914, 13020, 14121, 15217,
      16310, 17400, 18486, 19570, 20652, 21731, 22808, 23883, 24956, 26028, 27098, 28167, 29234>>

Chi2HalfLower50 ==
    <<288, 961, 1727, 2535, 3369, 4219, 5083, 5956, 6838, 7726, 8620, 9519, 10422,
      11329, 12239, 13152, 14068, 14987, 15907, 16830, 17755, 18682, 19610, 20540, 21471>>

\* chi2.ppf(0.5 + ci/2, 2*(n + 1))/2
Chi2HalfUpper(ci, n) ==
    IF n = 45 THEN (IF ci = 95 THEN 60214 ELSE 50375)
    ELSE IF ci = 95 THEN Chi2HalfUpper95[n + 1] ELSE Chi2HalfUpper50[n + 1]

\* chi2.ppf(0.5 - ci/2, 2*n)/2; df = 0 gives NaN
Chi2HalfLower(ci, n) ==
    IF n <= 0 THEN NaN
    ELSE IF n = 45 THEN (IF ci = 95 THEN 32823 ELSE 40312)
    ELSE IF ci = 95 THEN Chi2HalfLower95[n] ELSE Chi2HalfLower50[n]

(***************************************************************************)
(* State of one call of combineFixedBinsAndComputeFlux                     *)
(***************************************************************************)
VARIABLES
    sol_bins, meteors, time_area_prod,
    lm_m_data, rad_elev_data, rad_dist_data, ang_vel_data,
    min_meteors, ci, min_tap, min_bin_duration, max_bin_duration,
    start_idx, end_idx, pc,
    flux_list, flux_upper_list, flux_lower_list, sol_list, sol_bin_list,
    meteor_count_list, time_area_product_list,
    lm_m_list, rad_elev_list, rad_dist_list, ang_vel_list,
    emitted_runs, discarded_runs

(***************************************************************************)
(* State of one call of addFixedBins (sol_bins is the global grid of both) *)
(***************************************************************************)
VARIABLES
    small_sol_bins, meteor_num_arr, collecting_area_arr, obs_time_arr,
    lm_m_arr, rad_elev_arr, rad_dist_arr, ang_vel_arr,
    meteor_num_binned, collecting_area_binned, obs_time_binned,
    lm_m_binned, rad_elev_binned, rad_dist_binned, ang_vel_binned,
    align_pc

alignInputs == <<small_sol_bins, meteor_num_arr, collecting_area_arr, obs_time_arr,
                 lm_m_arr, rad_elev_arr, rad_dist_arr, ang_vel_arr>>

alignOutputs == <<meteor_num_binned, collecting_area_binned, obs_time_binned,
                  lm_m_binned, rad_elev_binned, rad_dist_binned, ang_vel_binned>>

alignVars == <<alignInputs, alignOutputs, align_pc>>

mergeInputs == <<sol_bins, meteors, time_area_prod, lm_m_data, rad_elev_data, rad_dist_data,
                 ang_vel_data, min_meteors, ci, min_tap, min_bin_duration, max_bin_duration>>

mergeLists == <<flux_list, flux_upper_list, flux_lower_list, sol_list, sol_bin_list,
                meteor_count_list, time_area_product_list,
                lm_m_list, rad_elev_list, rad_dist_list, ang_vel_list>>

mergeVars == <<mergeInputs, mergeLists, start_idx, end_idx, pc, emitted_runs, discarded_runs>>

(***************************************************************************)
(* State of the cross-station reduction of __main__: the aligned arrays of *)
(* every station and the per-bin sums computed from them                   *)
(***************************************************************************)
VARIABLES
    all_fixed_bin_information, all_num_meteors, all_time_area_product,
    reduced_lm_m_data, reduced_rad_elev_data, reduced_rad_dist_data, reduced_ang_vel_data,
    reduce_pc

reduceOutputs == <<all_num_meteors, all_time_area_product, reduced_lm_m_data, reduced_rad_elev_data,
                   reduced_rad_dist_data, reduced_ang_vel_data>>

reduceVars == <<all_fixed_bin_information, reduceOutputs, reduce_pc>>

(***************************************************************************)
(* State of one call of cameraTally.  An OrderedDict is the sequence of    *)
(* its items in insertion order.                                           *)
(***************************************************************************)
VARIABLES
    comb_sol, comb_sol_bins, single_fixed_bin_information,
    bin_tally, bin_tally_topmeteors, bin_tally_toptap, tally_i, tally_pc

tallyInputs == <<comb_sol, comb_sol_bins, single_fixed_bin_information>>

tallyVars == <<tallyInputs, bin_tally, bin_tally_topmeteors, bin_tally_toptap, tally_i, tally_pc>>

(***************************************************************************)
(* State of one StationPlotParams object.  Stations are numbered in the    *)
(* order of their first call, so that a dict keyed by the station is the   *)
(* sequence of its values in insertion order.  styled_first records what   *)
(* the first call for each station returned.                               *)
(***************************************************************************)
VARIABLES color_dict, marker_dict, plot_station, plot_result, styled_first

plotVars == <<color_dict, marker_dict, plot_station, plot_result, styled_first>>

(***************************************************************************)
(* State of the combined CSV file: the arrays given to the writer, the     *)
(* rows of the file, and the arrays the reader takes from it               *)
(***************************************************************************)
VARIABLES comb_data, csv_file, data2, read_back, csv_pc

csvVars == <<comb_data, csv_file, data2, read_back, csv_pc>>

vars == <<mergeVars, alignVars, reduceVars, tallyVars, plotVars, csvVars>>

\* no StationPlotParams object has been called
PlotIdle ==
    /\ color_dict = <<>>
    /\ marker_dict = <<>>
    /\ plot_station = 0
    /\ plot_result = <<>>
    /\ styled_first = <<>>

\* no combined CSV file is written or read
CsvIdle ==
    /\ comb_data = <<>>
    /\ csv_file = <<>>
    /\ data2 = <<>>
    /\ read_back = <<>>
    /\ csv_pc = "idle"

\* the reduction is not running
ReduceIdle ==
    /\ all_fixed_bin_information = <<>>
    /\ all_num_meteors = <<>>
    /\ all_time_area_product = <<>>
    /\ reduced_lm_m_data = <<>>
    /\ reduced_rad_elev_data = <<>>
    /\ reduced_rad_dist_data = <<>>
    /\ reduced_ang_vel_data = <<>>
    /\ reduce_pc = "idle"

\* no call of cameraTally is in progress
TallyIdle ==
    /\ comb_sol = <<>>
    /\ comb_sol_bins = <<>>
    /\ single_fixed_bin_information = <<>>
    /\ bin_tally = <<>>
    /\ bin_tally_topmeteors = <<>>
    /\ bin_tally_toptap = <<>>
    /\ tally_i = 0
    /\ tally_pc = "idle"

\* len(meteors)
NumBins == Cardinality(DOMAIN meteors)

\* twice middle_bin_sol[i] = sol_bins[i + 1] + sol_bins[i]
Mid2(i) == sol_bins[i + 1] + sol_bins[i]

\* twice bin_hours = (middle_bin_sol[end_idx] - middle_bin_sol[start_idx])/(2*pi)*24*365.24219.
\* The grid unit of the walk is the solar longitude the Earth covers in one
\* hour, 2*pi/(24*365.24219) rad, so that x/(2*pi)*24*365.24219 is x grid units.
BinHours2(s, e) == Mid2(e) - Mid2(s)

\* range(1, len(meteors))
LoopRange == 1 .. (NumBins - 1)

\* mutant: the three tests joined by "or"
MeetsThresholdsAny(s, e) ==
    \/ SumRange(meteors, s, e) >= min_meteors
    \/ NanSumRange(time_area_prod, s, e) >= min_tap
    \/ Mid2(e) - Mid2(s) >= 2 * min_bin_duration

\* mutant: the duration test left out
MeetsThresholdsNoDuration(s, e) ==
    /\ SumRange(meteors, s, e) >= min_meteors
    /\ NanSumRange(time_area_prod, s, e) >= min_tap

\* the emission test of the walk
MeetsThresholds(s, e) ==
    /\ SumRange(meteors, s, e) >= min_meteors
    /\ NanSumRange(time_area_prod, s, e) >= min_tap
    /\ BinHours2(s, e) >= 2 * min_bin_duration

\* mutant: a run of exactly the maximum duration is kept
OverMaxDurationStrict(s, e) == Mid2(e) - Mid2(s) > 2 * max_bin_duration

\* the discard test of the walk (the elif)
OverMaxDuration(s, e) == BinHours2(s, e) >= 2 * max_bin_duration

\* np.sum(select[~np.isnan(select)])/ta_prod with select = data[sl]*time_area_prod[sl]
RECURSIVE SumSelect(_, _, _)
SumSelect(data, a, b) ==
    IF a >= b THEN 0
    ELSE (IF IsNaN(FMul(data[a], time_area_prod[a])) THEN 0 ELSE FMul(data[a], time_area_prod[a]))
         + SumSelect(data, a + 1, b)

Weighted(data, s, e, ta_prod) == Quot(SumSelect(data, s, e), ta_prod)

\* the value appended to an auxiliary list on emission
AuxValue(data, s, e, ta_prod) == IF ta_prod = 0 THEN NaNQ ELSE Weighted(data, s, e, ta_prod)

\* mutant: no test for a zero time-area product
FluxValueUnguarded(n, ta_prod) == Quot(1000 * n, ta_prod)

\* 1e9*num_meteors/ta_prod; flux numerators are in thousandths of a meteor
FluxValue(n, ta_prod) == IF ta_prod = 0 THEN NaNQ ELSE Quot(1000 * n, ta_prod)

FluxUpperValue(n, ta_prod) == IF ta_prod = 0 THEN NaNQ ELSE Quot(Chi2HalfUpper(ci, n), ta_prod)

FluxLowerValue(n, ta_prod) == IF ta_prod = 0 THEN NaNQ ELSE Quot(Chi2HalfLower(ci, n), ta_prod)

\* np.mean(middle_bin_sol[sl])
RECURSIVE SumMid2(_, _)
SumMid2(a, b) == IF a >= b THEN 0 ELSE Mid2(a) + SumMid2(a + 1, b)

MeanMid(s, e) == [num |-> SumMid2(s, e), den |-> 2 * (e - s)]

\* mutant: the next run starts one bin late
AdvanceStartLate(e) == e + 1

\* mutant: the next run starts one bin early
AdvanceStartEarly(e) == e - 1

\* start_idx = end_idx
AdvanceStart(e) == e

(***************************************************************************)
(* Inputs of the merge walk                                                *)
(***************************************************************************)
CountValues == {0, 1, 2}

TapValues == {0, 1}

\* strictly increasing edge grids with n bins: uniform, and with gaps 1, 2, 1, 2, ...
SolGrids(n) == { [k \in 0 .. n |-> k], [k \in 0 .. n |-> k + (k \div 2)] }

\* shapes of an auxiliary array: 0 all NaN; 1 no NaN; 2 NaN in the first bin;
\* 3 NaN exactly where the time-area product is 0 (what the reducer's 0/0 leaves).
\* The four arrays of an input take the shapes p, p + 1, p + 2, p + 3.
AuxPatterns == {0, 1}

AuxArray(p, n, tap) ==
    [k \in 0 .. (n - 1) |->
        CASE p % 4 = 0 -> NaN
          [] p % 4 = 1 -> k + 1
          [] p % 4 = 2 -> IF k = 0 THEN NaN ELSE 2
          [] OTHER -> IF tap[k] = 0 THEN NaN ELSE 3]

CILevels == {50, 95}

MergeInput(grid, met, tap, p, mm, c, mt, mind, maxd) ==
    [sol_bins |-> grid, meteors |-> met, time_area_prod |-> tap,
     lm_m_data |-> AuxArray(p, Cardinality(DOMAIN met), tap),
     rad_elev_data |-> AuxArray(p + 1, Cardinality(DOMAIN met), tap),
     rad_dist_data |-> AuxArray(p + 2, Cardinality(DOMAIN met), tap),
     ang_vel_data |-> AuxArray(p + 3, Cardinality(DOMAIN met), tap),
     min_meteors |-> mm, ci |-> c, min_tap |-> mt,
     min_bin_duration |-> mind, max_bin_duration |-> maxd]

\* spec.md section 8: edges 0..5, counts 10,15,20,10,5, TAP 1e9 each,
\* min_meteors = 30, min_tap = 2, min_bin_duration = 0, no run over the maximum
ScenarioMerge ==
    MergeInput([k \in 0 .. 5 |-> k], [k \in 0 .. 4 |-> <<10, 15, 20, 10, 5>>[k + 1]],
               [k \in 0 .. 4 |-> 1], 1, 30, 95, 2, 0, 1000)

\* spec.md section 8: a bin with n = 0 meteors and T = 5e9
ScenarioZero ==
    MergeInput([k \in 0 .. 2 |-> k], [k \in 0 .. 1 |-> 0], [k \in 0 .. 1 |-> 5],
               1, 0, 95, 0, 0, 1000)

MinMeteorsValues == {0, 2}

MinTapValues == {0, 1}

MinDurationValues == {0, 2}

MaxDurationValues == {1, 2, 1000}

(***************************************************************************)
(* combineFixedBinsAndComputeFlux                                          *)
(***************************************************************************)
MergeStart(inp) ==
        /\ sol_bins = inp.sol_bins
        /\ meteors = inp.meteors
        /\ time_area_prod = inp.time_area_prod
        /\ lm_m_data = inp.lm_m_data
        /\ rad_elev_data = inp.rad_elev_data
        /\ rad_dist_data = inp.rad_dist_data
        /\ ang_vel_data = inp.ang_vel_data
        /\ min_meteors = inp.min_meteors
        /\ ci = inp.ci
        /\ min_tap = inp.min_tap
        /\ min_bin_duration = inp.min_bin_duration
        /\ max_bin_duration = inp.max_bin_duration
        /\ start_idx = 0
        /\ end_idx = 1
        /\ pc = "loop"
        /\ flux_list = <<>>
        /\ flux_upper_list = <<>>
        /\ flux_lower_list = <<>>
        /\ sol_list = <<>>
        /\ sol_bin_list = <<>>
        /\ meteor_count_list = <<>>
        /\ time_area_product_list = <<>>
        /\ lm_m_list = <<>>
        /\ rad_elev_list = <<>>
        /\ rad_dist_list = <<>>
        /\ ang_vel_list = <<>>
        /\ emitted_runs = <<>>
        /\ discarded_runs = <<>>

\* no call of addFixedBins is in progress
AlignIdle ==
    /\ small_sol_bins = <<>>
    /\ meteor_num_arr = <<>>
    /\ collecting_area_arr = <<>>
    /\ obs_time_arr = <<>>
    /\ lm_m_arr = <<>>
    /\ rad_elev_arr = <<>>
    /\ rad_dist_arr = <<>>
    /\ ang_vel_arr = <<>>
    /\ meteor_num_binned = <<>>
    /\ collecting_area_binned = <<>>
    /\ obs_time_binned = <<>>
    /\ lm_m_binned = <<>>
    /\ rad_elev_binned = <<>>
    /\ rad_dist_binned = <<>>
    /\ ang_vel_binned = <<>>
    /\ align_pc = "idle"

InitMerge ==
    \/ \E n \in 1 .. MaxBins :
         \E grid \in SolGrids(n), met \in [0 .. (n - 1) -> CountValues],
            tap \in [0 .. (n - 1) -> TapValues], p \in AuxPatterns,
            mm \in MinMeteorsValues, c \in CILevels, mt \in MinTapValues,
            mind \in MinDurationValues, maxd \in MaxDurationValues :
             MergeStart(MergeInput(grid, met, tap, p, mm, c, mt, mind, maxd)) /\ AlignIdle /\ ReduceIdle /\ TallyIdle /\ PlotIdle /\ CsvIdle
    \/ MergeStart(ScenarioMerge) /\ AlignIdle /\ ReduceIdle /\ TallyIdle /\ PlotIdle /\ CsvIdle
    \/ MergeStart(ScenarioZero) /\ AlignIdle /\ ReduceIdle /\ TallyIdle /\ PlotIdle /\ CsvIdle

\* the if branch: the run [start_idx, end_idx) becomes an output bin
EmitBin ==
    /\ pc = "loop"
    /\ end_idx \in LoopRange
    /\ MeetsThresholds(start_idx, end_idx)
    /\ LET ta_prod == SumRange(time_area_prod, start_idx, end_idx)
           num_meteors == SumRange(meteors, start_idx, end_idx)
       IN  /\ meteor_count_list' = Append(meteor_count_list, num_meteors)
           /\ time_area_product_list' = Append(time_area_product_list, ta_prod)
           /\ flux_list' = Append(flux_list, FluxValue(num_meteors, ta_prod))
           /\ flux_upper_list' = Append(flux_upper_list, FluxUpperValue(num_meteors, ta_prod))
           /\ flux_lower_list' = Append(flux_lower_list, FluxLowerValue(num_meteors, ta_prod))
           /\ lm_m_list' = Append(lm_m_list, AuxValue(lm_m_data, start_idx, end_idx, ta_prod))
           /\ rad_elev_list' = Append(rad_elev_list, AuxValue(rad_elev_data, start_idx, end_idx, ta_prod))
           /\ rad_dist_list' = Append(rad_dist_list, AuxValue(rad_dist_data, start_idx, end_idx, ta_prod))
           /\ ang_vel_list' = Append(ang_vel_list, AuxValue(ang_vel_data, start_idx, end_idx, ta_prod))
    /\ sol_list' = Append(sol_list, MeanMid(start_idx, end_idx))
    /\ sol_bin_list' = Append(sol_bin_list, sol_bins[start_idx])
    /\ start_idx' = AdvanceStart(end_idx)
    /\ end_idx' = end_idx + 1
    /\ emitted_runs' = Append(emitted_runs, <<start_idx, end_idx>>)
    /\ UNCHANGED <<mergeInputs, pc, discarded_runs, alignVars, reduceVars, tallyVars, plotVars, csvVars>>

\* the elif branch: the run [start_idx, end_idx) is skipped
SkipBin ==
    /\ pc = "loop"
    /\ end_idx \in LoopRange
    /\ ~MeetsThresholds(start_idx, end_idx)
    /\ OverMaxDuration(start_idx, end_idx)
    /\ start_idx' = AdvanceStart(end_idx)
    /\ end_idx' = end_idx + 1
    /\ discarded_runs' = Append(discarded_runs, <<start_idx, end_idx>>)
    /\ UNCHANGED <<mergeInputs, mergeLists, pc, emitted_runs, alignVars, reduceVars, tallyVars, plotVars, csvVars>>

\* neither branch: the run keeps growing
Accumulate ==
    /\ pc = "loop"
    /\ end_idx \in LoopRange
    /\ ~MeetsThresholds(start_idx, end_idx)
    /\ ~OverMaxDuration(start_idx, end_idx)
    /\ end_idx' = end_idx + 1
    /\ UNCHANGED <<mergeInputs, mergeLists, pc, start_idx, emitted_runs, discarded_runs, alignVars, reduceVars, tallyVars, plotVars, csvVars>>

\* after the loop: the closing edge is appended and the lists are returned
ReturnMerge ==
    /\ pc = "loop"
    /\ end_idx \notin LoopRange
    /\ sol_bin_list' = Append(sol_bin_list, sol_bins[start_idx])
    /\ pc' = "done"
    /\ UNCHANGED <<mergeInputs, flux_list, flux_upper_list, flux_lower_list, sol_list,
                   meteor_count_list, time_area_product_list, lm_m_list, rad_elev_list,
                   rad_dist_list, ang_vel_list, start_idx, end_idx, emitted_runs, discarded_runs,
                   alignVars, reduceVars, tallyVars, plotVars, csvVars>>

NextMerge == EmitBin \/ SkipBin \/ Accumulate \/ ReturnMerge

SpecMerge == InitMerge /\ [][NextMerge]_vars

(***************************************************************************)
(* Properties of combineFixedBinsAndComputeFlux                            *)
(***************************************************************************)
InRun(i, run) == run[1] <= i /\ i < run[2]

\* the number of runs of a list that hold bin i
RunsHolding(i, runs) == Cardinality({k \in DOMAIN runs : InRun(i, runs[k])})

IsScenarioMerge == mergeInputs = <<ScenarioMerge.sol_bins, ScenarioMerge.meteors,
    ScenarioMerge.time_area_prod, ScenarioMerge.lm_m_data, ScenarioMerge.rad_elev_data,
    ScenarioMerge.rad_dist_data, ScenarioMerge.ang_vel_data, ScenarioMerge.min_meteors,
    ScenarioMerge.ci, ScenarioMerge.min_tap, ScenarioMerge.min_bin_duration,
    ScenarioMerge.max_bin_duration>>

EdgeOf(x) == \E k \in DOMAIN sol_bins : sol_bins[k] = x

StrictlyIncreasing(seq) == \A a, b \in DOMAIN seq : a < b => seq[a] < seq[b]

\* C1 as stated: when the walk has finished, every input bin 0..N-1 lies in
\* exactly one emitted run or exactly one discarded run.
C1_EveryBinCovered ==
    pc = "done" =>
        \A i \in 0 .. (NumBins - 1) :
            RunsHolding(i, emitted_runs) + RunsHolding(i, discarded_runs) = 1

\* C1 amended: when the walk has finished, every input bin below the final
\* start index lies in exactly one emitted run or exactly one discarded run,
\* and the bins from the final start index on, which always include the last
\* bin N-1, lie in no run at all; no bin lies in two runs.
C1_CoveredUpToFinalStart ==
    pc = "done" =>
        /\ start_idx <= NumBins - 1
        /\ \A i \in 0 .. (NumBins - 1) :
            RunsHolding(i, emitted_runs) + RunsHolding(i, discarded_runs)
                = IF i < start_idx THEN 1 ELSE 0

C1_Witness ==
    /\ pc = "done"
    /\ Len(emitted_runs) >= 1
    /\ Len(discarded_runs) >= 1

\* C2 as stated: the scenario of spec.md section 8 ends with two output bins,
\* edges 0..3 with 45 meteors and edges 3..5 with 15 meteors.
C2_ScenarioTwoBins ==
    (pc = "done" /\ IsScenarioMerge) =>
        /\ meteor_count_list = <<45, 15>>
        /\ sol_bin_list = <<0, 3, 5>>

\* C2 amended: the scenario ends with exactly one output bin, spanning the
\* edges 0 to 3 with 45 meteors and time-area product 3e9; the trailing run
\* of bins 3 and 4 (15 meteors) is not emitted and the returned edges are 0, 3.
C2_ScenarioOneBin ==
    (pc = "done" /\ IsScenarioMerge) =>
        /\ meteor_count_list = <<45>>
        /\ time_area_product_list = <<3>>
        /\ sol_bin_list = <<0, 3>>
        /\ emitted_runs = <<(<<0, 3>>)>>
        /\ discarded_runs = <<>>
        /\ start_idx = 3

C2_Witness == pc = "done" /\ IsScenarioMerge /\ Len(flux_list) = 1

\* C3: every emitted bin has a meteor count >= min_meteors, a time-area
\* product >= min_tap (in 1e9) and a duration, from the midpoints of its start
\* and end index, >= min_bin_duration; no bin is emitted on other grounds.
C3_EmittedMeetThresholds ==
    /\ Len(meteor_count_list) = Len(emitted_runs)
    /\ Len(time_area_product_list) = Len(emitted_runs)
    /\ \A k \in DOMAIN emitted_runs :
        LET s == emitted_runs[k][1]
            e == emitted_runs[k][2]
        IN  /\ meteor_count_list[k] >= min_meteors
            /\ time_area_product_list[k] >= min_tap
            /\ (sol_bins[e + 1] + sol_bins[e]) - (sol_bins[s + 1] + sol_bins[s])
                   >= 2 * min_bin_duration

C3_Witness ==
    /\ pc = "done"
    /\ min_meteors > 0 /\ min_tap > 0 /\ min_bin_duration > 0
    /\ \E k \in DOMAIN emitted_runs : emitted_runs[k][2] - emitted_runs[k][1] >= 2

\* C4, the state part: at most N output bins, the edge list is a strictly
\* increasing list of input edges (each emitted run's start edge, then the
\* closing edge), and the emitted runs are pairwise disjoint.
C4_State ==
    /\ Len(meteor_count_list) <= NumBins
    /\ StrictlyIncreasing(sol_bin_list)
    /\ \A k \in DOMAIN sol_bin_list : EdgeOf(sol_bin_list[k])
    /\ \A k \in DOMAIN emitted_runs : sol_bin_list[k] = sol_bins[emitted_runs[k][1]]
    /\ pc = "done" =>
        /\ Len(sol_bin_list) = Len(emitted_runs) + 1
        /\ sol_bin_list[Len(sol_bin_list)] = sol_bins[start_idx]
    /\ \A i \in 0 .. (NumBins - 1) : RunsHolding(i, emitted_runs) <= 1

\* C4: the state part holds throughout and the start index never decreases.
C4_MergeMonotone == [](C4_State) /\ [][start_idx' >= start_idx]_vars

C4_Witness == pc = "done" /\ Len(emitted_runs) >= 2

\* C5 as stated: an emitted bin with n = 0 meteors and time-area product
\* T > 0 has flux 0, lower flux bound 0 and upper flux bound > 0.
C5_ZeroCountBounds ==
    \A k \in DOMAIN flux_list :
        (meteor_count_list[k] = 0 /\ time_area_product_list[k] > 0) =>
            /\ flux_list[k].num = 0 /\ flux_list[k].den > 0
            /\ flux_lower_list[k].num = 0 /\ flux_lower_list[k].den > 0
            /\ flux_upper_list[k].num > 0 /\ flux_upper_list[k].den > 0

\* C6 as stated: every emitted bin with time-area product > 0 has
\* flux_lower <= flux <= flux_upper.
C6_BoundsOrdered ==
    \A k \in DOMAIN flux_list :
        time_area_product_list[k] > 0 =>
            /\ QLe(flux_lower_list[k], flux_list[k])
            /\ QLe(flux_list[k], flux_upper_list[k])

RECURSIVE SumDefined(_, _, _)
\* the sum of data[i]*time_area_prod[i] over the bins a..b-1 whose data[i] is not NaN
SumDefined(data, a, b) ==
    IF a >= b THEN 0
    ELSE (IF IsNaN(data[a]) THEN 0 ELSE data[a] * time_area_prod[a]) + SumDefined(data, a + 1, b)

ClaimedWeighted(data, s, e, ta_prod) ==
    IF \A i \in s .. (e - 1) : IsNaN(data[i]) THEN NaNQ
    ELSE [num |-> SumDefined(data, s, e), den |-> ta_prod]

\* C7 as stated: for an emitted bin with non-zero time-area product each
\* auxiliary value is the sum of field*T over the run's bins with a defined
\* field, divided by the run's time-area product, and NaN when the field is
\* NaN in every bin of the run.
C7_WeightedAux ==
    \A k \in DOMAIN emitted_runs :
        LET s == emitted_runs[k][1]
            e == emitted_runs[k][2]
            T == time_area_product_list[k]
        IN  T # 0 =>
              /\ lm_m_list[k] = ClaimedWeighted(lm_m_data, s, e, T)
              /\ rad_elev_list[k] = ClaimedWeighted(rad_elev_data, s, e, T)
              /\ rad_dist_list[k] = ClaimedWeighted(rad_dist_data, s, e, T)
              /\ ang_vel_list[k] = ClaimedWeighted(ang_vel_data, s, e, T)

\* C8: an emitted bin whose time-area product is 0 has NaN flux, NaN flux
\* bounds and NaN auxiliary values, and its meteor count and time-area
\* product are the sums over its run.
C8_ZeroTapIsNaN ==
    \A k \in DOMAIN emitted_runs :
        time_area_product_list[k] = 0 =>
            /\ IsNaNQ(flux_list[k])
            /\ IsNaNQ(flux_lower_list[k])
            /\ IsNaNQ(flux_upper_list[k])
            /\ IsNaNQ(lm_m_list[k])
            /\ IsNaNQ(rad_elev_list[k])
            /\ IsNaNQ(rad_dist_list[k])
            /\ IsNaNQ(ang_vel_list[k])
            /\ meteor_count_list[k] = SumRange(meteors, emitted_runs[k][1], emitted_runs[k][2])
            /\ SumRange(time_area_prod, emitted_runs[k][1], emitted_runs[k][2]) = 0

C8_Witness ==
    \E k \in DOMAIN emitted_runs :
        time_area_product_list[k] = 0 /\ meteor_count_list[k] > 0

\* twice the duration of the run [s, e) as the walk computes it, in hours:
\* the distance of the midpoints of the bins s and e
WalkDuration2(s, e) == (sol_bins[e + 1] + sol_bins[e]) - (sol_bins[s + 1] + sol_bins[s])

\* C15 as stated: no emitted bin has a duration, as the walk computes it for
\* its run, greater than or equal to max_bin_duration.
C15_NoBinOverMaxDuration ==
    \A k \in DOMAIN emitted_runs :
        WalkDuration2(emitted_runs[k][1], emitted_runs[k][2]) < 2 * max_bin_duration

RECURSIVE SumOver(_, _)
\* the sum of arr over a set of indices
SumOver(arr, idx) ==
    IF idx = {} THEN 0
    ELSE LET i == CHOOSE j \in idx : TRUE IN arr[i] + SumOver(arr, idx \ {i})

\* C18: an output bin emitted over the run [s, e) with a non-zero time-area
\* product records the sum of the input counts over [s, e), the sum T of the
\* input time-area products over [s, e), and the flux 1e9 * count / T.
C18_SumsAndFlux ==
    \A k \in DOMAIN emitted_runs :
        LET run == emitted_runs[k][1] .. (emitted_runs[k][2] - 1)
        IN  time_area_product_list[k] # 0 =>
              /\ meteor_count_list[k] = SumOver(meteors, run)
              /\ time_area_product_list[k] = SumOver(time_area_prod, run)
              /\ flux_list[k] = [num |-> 1000 * SumOver(meteors, run),
                                 den |-> SumOver(time_area_prod, run)]

C18_Witness ==
    \E k \in DOMAIN emitted_runs :
        /\ emitted_runs[k][2] - emitted_runs[k][1] >= 2
        /\ meteor_count_list[k] >= 2
        /\ time_area_product_list[k] >= 2

\* C19 as stated: the returned edge list has one more entry than the value
\* lists, and for every output bin k the entries k and k + 1 are the first
\* and the last input edge of the run merged into bin k.
C19_EdgesBoundRuns ==
    pc = "done" =>
        /\ Len(sol_bin_list) = Len(meteor_count_list) + 1
        /\ \A k \in DOMAIN emitted_runs :
            /\ sol_bin_list[k] = sol_bins[emitted_runs[k][1]]
            /\ sol_bin_list[k + 1] = sol_bins[emitted_runs[k][2]]

\* the run [s, e) fails at least one of the three thresholds
FailsAThreshold(s, e) ==
    \/ SumOver(meteors, s .. (e - 1)) < min_meteors
    \/ SumOver(time_area_prod, s .. (e - 1)) < min_tap
    \/ WalkDuration2(s, e) < 2 * min_bin_duration

\* C20: a step of the walk whose run [s, e) fails a threshold appends nothing
\* to any output list, moves the start index to e when the run's duration is
\* >= max_bin_duration and leaves it unchanged otherwise.
C20_DiscardOrAccumulate ==
    [][(pc = "loop" /\ end_idx \in 1 .. (NumBins - 1) /\ FailsAThreshold(start_idx, end_idx)) =>
        /\ mergeLists' = mergeLists
        /\ emitted_runs' = emitted_runs
        /\ start_idx' = IF WalkDuration2(start_idx, end_idx) >= 2 * max_bin_duration
                        THEN end_idx ELSE start_idx]_vars

C20_Witness ==
    /\ pc = "done"
    /\ \E k \in DOMAIN discarded_runs : discarded_runs[k][2] - discarded_runs[k][1] >= 2


(***************************************************************************)
(* addFixedBins                                                            *)
(***************************************************************************)
\* the wrap correction added to small_sol_bins[0]
FullTurn == 360

\* len(arr) of a numpy array
Size(arr) == Cardinality(DOMAIN arr)

\* x > -1e-7 for a difference x of two edges; the edges of the model are whole
\* thousandths, so that x is an integer and exceeds -1e-7 exactly when it is >= 0
WithinTol(x) == x >= 0

\* mutant: the last index holding True
ArgMaxLast(mask) ==
    IF \E k \in DOMAIN mask : mask[k]
    THEN CHOOSE k \in DOMAIN mask : mask[k] /\ \A j \in DOMAIN mask : mask[j] => k >= j
    ELSE 0

\* np.argmax of a boolean array: the first index holding True, 0 when none does
ArgMax(mask) ==
    IF \E k \in DOMAIN mask : mask[k]
    THEN CHOOSE k \in DOMAIN mask : mask[k] /\ \A j \in DOMAIN mask : mask[j] => k <= j
    ELSE 0

\* an edge of a grid of addFixedBins is a float with three decimals, held as
\* the integer of its thousandths; so is a literal of the code added to it
Thousandths(x) == 1000 * x

\* mutant: the wrap correction is never applied
AlignIndexNoWrap == ArgMax([k \in DOMAIN sol_bins |-> WithinTol(sol_bins[k] - small_sol_bins[0])])

\* the index i at which the local arrays are placed
AlignIndex ==
    IF sol_bins[0] > small_sol_bins[0]
    THEN ArgMax([k \in DOMAIN sol_bins |-> WithinTol(sol_bins[k] - (small_sol_bins[0] + Thousandths(FullTurn)))])
    ELSE ArgMax([k \in DOMAIN sol_bins |-> WithinTol(sol_bins[k] - small_sol_bins[0])])

\* len(sol_bins) - 1
NumGlobalBins == Size(sol_bins) - 1

Min(a, b) == IF a <= b THEN a ELSE b

\* the length of the slice [i : i + len] of an array of len(sol_bins) - 1 entries
SliceSize(i, len) == Min(i + len, NumGlobalBins) - Min(i, NumGlobalBins)

\* whether numpy accepts binned[i:i + len] = arr: the shapes agree, or arr has
\* one entry and is broadcast; otherwise the assignment raises ValueError
SliceFits(i, len, arr) == SliceSize(i, len) = Size(arr) \/ Size(arr) = 1

\* binned = np.zeros(len(sol_bins) - 1) (+ np.nan); binned[i:i + len] = arr
Placed(fill, i, len, arr) ==
    [k \in 0 .. (NumGlobalBins - 1) |->
        IF Min(i, NumGlobalBins) <= k /\ k < Min(i + len, NumGlobalBins)
        THEN (IF Size(arr) = 1 THEN arr[0] ELSE arr[k - i])
        ELSE fill]

\* mutant: the count is zeroed only where the collecting area is zero
MaskZeroAreaOnly(met, area, time) ==
    [k \in DOMAIN met |-> IF area[k] = 0 THEN 0 ELSE met[k]]

\* meteor_num_binned[(collecting_area_binned == 0) | (obs_time_binned == 0)] = 0
MaskZeroExposure(met, area, time) ==
    [k \in DOMAIN met |-> IF area[k] = 0 \/ time[k] = 0 THEN 0 ELSE met[k]]

\* every slice assignment of the call is accepted
AllSlicesFit ==
    /\ SliceFits(AlignIndex, Size(collecting_area_arr), collecting_area_arr)
    /\ SliceFits(AlignIndex, Size(obs_time_arr), obs_time_arr)
    /\ SliceFits(AlignIndex, Size(obs_time_arr), lm_m_arr)
    /\ SliceFits(AlignIndex, Size(obs_time_arr), rad_elev_arr)
    /\ SliceFits(AlignIndex, Size(obs_time_arr), rad_dist_arr)
    /\ SliceFits(AlignIndex, Size(obs_time_arr), ang_vel_arr)
    /\ SliceFits(AlignIndex, Size(meteor_num_arr), meteor_num_arr)

\* no call of combineFixedBinsAndComputeFlux is in progress
MergeIdle ==
    /\ meteors = <<>>
    /\ time_area_prod = <<>>
    /\ lm_m_data = <<>>
    /\ rad_elev_data = <<>>
    /\ rad_dist_data = <<>>
    /\ ang_vel_data = <<>>
    /\ min_meteors = 0
    /\ ci = 95
    /\ min_tap = 0
    /\ min_bin_duration = 0
    /\ max_bin_duration = 0
    /\ start_idx = 0
    /\ end_idx = 0
    /\ pc = "idle"
    /\ flux_list = <<>>
    /\ flux_upper_list = <<>>
    /\ flux_lower_list = <<>>
    /\ sol_list = <<>>
    /\ sol_bin_list = <<>>
    /\ meteor_count_list = <<>>
    /\ time_area_product_list = <<>>
    /\ lm_m_list = <<>>
    /\ rad_elev_list = <<>>
    /\ rad_dist_list = <<>>
    /\ ang_vel_list = <<>>
    /\ emitted_runs = <<>>
    /\ discarded_runs = <<>>

(***************************************************************************)
(* Inputs of addFixedBins: a global grid of ng bins of 2 degrees from      *)
(* base; a local grid of n bins that starts at the global edge i, shifted  *)
(* by off degrees (0: a true sub-range, 1: between two global edges, or    *)
(* past the last one when i = ng) and lowered by wrap full turns.          *)
(***************************************************************************)
GridBases == {356, 358}

LocalCounts == {0, 2}

LocalAreas == {0, 4}

LocalTimes == {0, 1}

GlobalGrid(base, ng) == [k \in 0 .. ng |-> Thousandths(base + 2 * k)]

LocalGrid(base, i, n, off, wrap) ==
    [k \in 0 .. n |-> Thousandths(base + 2 * (i + k) + off - FullTurn * wrap)]

InitAlign ==
    /\ MergeIdle
    /\ ReduceIdle
    /\ TallyIdle
    /\ PlotIdle
    /\ CsvIdle
    /\ \E base \in GridBases, ng \in 2 .. MaxBins, off \in {0, 1}, wrap \in {0, 1}, q \in AuxPatterns :
        \E i \in 0 .. ng :
            \E n \in 1 .. (IF i = ng THEN 1 ELSE ng - i) :
                \E met \in [0 .. (n - 1) -> LocalCounts], area \in [0 .. (n - 1) -> LocalAreas],
                   time \in [0 .. (n - 1) -> LocalTimes] :
                    /\ wrap = 1 => base + 2 * i + off >= FullTurn
                    /\ i = ng => off = 1
                    /\ sol_bins = GlobalGrid(base, ng)
                    /\ small_sol_bins = LocalGrid(base, i, n, off, wrap)
                    /\ meteor_num_arr = met
                    /\ collecting_area_arr = area
                    /\ obs_time_arr = time
                    /\ lm_m_arr = AuxArray(q, n, area)
                    /\ rad_elev_arr = AuxArray(q + 1, n, area)
                    /\ rad_dist_arr = AuxArray(q + 2, n, area)
                    /\ ang_vel_arr = AuxArray(q + 3, n, area)
    /\ meteor_num_binned = <<>>
    /\ collecting_area_binned = <<>>
    /\ obs_time_binned = <<>>
    /\ lm_m_binned = <<>>
    /\ rad_elev_binned = <<>>
    /\ rad_dist_binned = <<>>
    /\ ang_vel_binned = <<>>
    /\ align_pc = "call"

\* the call runs to its return statement
AddFixedBinsReturn ==
    /\ align_pc = "call"
    /\ AllSlicesFit
    /\ LET i == AlignIndex
           area == Placed(0, i, Size(collecting_area_arr), collecting_area_arr)
           time == Placed(0, i, Size(obs_time_arr), obs_time_arr)
       IN  /\ collecting_area_binned' = area
           /\ obs_time_binned' = time
           /\ lm_m_binned' = Placed(NaN, i, Size(obs_time_arr), lm_m_arr)
           /\ rad_elev_binned' = Placed(NaN, i, Size(obs_time_arr), rad_elev_arr)
           /\ rad_dist_binned' = Placed(NaN, i, Size(obs_time_arr), rad_dist_arr)
           /\ ang_vel_binned' = Placed(NaN, i, Size(obs_time_arr), ang_vel_arr)
           /\ meteor_num_binned' =
                MaskZeroExposure(Placed(0, i, Size(meteor_num_arr), meteor_num_arr), area, time)
    /\ align_pc' = "returned"
    /\ UNCHANGED <<mergeVars, reduceVars, tallyVars, plotVars, csvVars, alignInputs>>

\* a slice assignment raises ValueError: nothing is returned
AddFixedBinsRaise ==
    /\ align_pc = "call"
    /\ ~AllSlicesFit
    /\ align_pc' = "raised"
    /\ UNCHANGED <<mergeVars, reduceVars, tallyVars, plotVars, csvVars, alignInputs, alignOutputs>>

NextAlign == AddFixedBinsReturn \/ AddFixedBinsRaise

SpecAlign == InitAlign /\ [][NextAlign]_vars

(***************************************************************************)
(* Properties of addFixedBins                                              *)
(***************************************************************************)
\* the local grid is the global grid's sub-range at offset i, lowered by w full turns
SubRangeAt(i, w) ==
    /\ i + Size(small_sol_bins) - 1 <= NumGlobalBins
    /\ \A k \in DOMAIN small_sol_bins : small_sol_bins[k] = sol_bins[i + k] - Thousandths(FullTurn) * w

\* the six arrays other than the meteor count, sliced at [i, i + n), are the local arrays
SixArraysRecovered(i) ==
    \A k \in DOMAIN collecting_area_arr :
        /\ collecting_area_binned[i + k] = collecting_area_arr[k]
        /\ obs_time_binned[i + k] = obs_time_arr[k]
        /\ lm_m_binned[i + k] = lm_m_arr[k]
        /\ rad_elev_binned[i + k] = rad_elev_arr[k]
        /\ rad_dist_binned[i + k] = rad_dist_arr[k]
        /\ ang_vel_binned[i + k] = ang_vel_arr[k]

\* C9 as stated: for a local grid that is a sub-range of the global grid at
\* offset i, with or without the wrap, every returned array sliced at
\* [i, i + n) is the local array, the meteor counts included.
C9_RoundTripAll ==
    \A i \in DOMAIN sol_bins, w \in {0, 1} :
        (align_pc = "returned" /\ SubRangeAt(i, w)) =>
            /\ SixArraysRecovered(i)
            /\ \A k \in DOMAIN meteor_num_arr : meteor_num_binned[i + k] = meteor_num_arr[k]

\* C9 amended: for such a local grid the call returns, the area, time and four
\* auxiliary arrays sliced at [i, i + n) are the local arrays exactly, and the
\* meteor-count slice is the local count where the local area and time are
\* both non-zero and 0 where either is zero.
C9_RoundTripMasked ==
    \A i \in DOMAIN sol_bins, w \in {0, 1} :
        (align_pc # "call" /\ SubRangeAt(i, w)) =>
            /\ align_pc = "returned"
            /\ SixArraysRecovered(i)
            /\ \A k \in DOMAIN meteor_num_arr :
                meteor_num_binned[i + k] =
                    IF collecting_area_arr[k] = 0 \/ obs_time_arr[k] = 0 THEN 0
                    ELSE meteor_num_arr[k]

C9_Witness ==
    /\ align_pc = "returned"
    /\ \E i \in DOMAIN sol_bins : i > 0 /\ SubRangeAt(i, 1)
    /\ \E k \in DOMAIN meteor_num_arr :
        meteor_num_arr[k] > 0 /\ collecting_area_arr[k] > 0 /\ obs_time_arr[k] = 0
    /\ \E k \in DOMAIN meteor_num_arr :
        meteor_num_arr[k] > 0 /\ collecting_area_arr[k] > 0 /\ obs_time_arr[k] > 0

GlobalBinIndex == 0 .. (NumGlobalBins - 1)

\* bin j is one the local arrays were placed on
Covered(j) == AlignIndex <= j /\ j < AlignIndex + Size(obs_time_arr)

NoEdgeMatches ==
    \A k \in DOMAIN sol_bins, w \in {0, 1} : sol_bins[k] # small_sol_bins[0] + Thousandths(FullTurn) * w

WrappedFirstEdge ==
    IF sol_bins[0] > small_sol_bins[0] THEN small_sol_bins[0] + Thousandths(FullTurn) ELSE small_sol_bins[0]

\* the first global edge above the wrapped local first edge, 0 when there is none
FirstEdgeAbove ==
    IF \E k \in DOMAIN sol_bins : sol_bins[k] > WrappedFirstEdge
    THEN CHOOSE k \in DOMAIN sol_bins :
            /\ sol_bins[k] > WrappedFirstEdge
            /\ \A j \in 0 .. (k - 1) : sol_bins[j] < WrappedFirstEdge
    ELSE 0

MaxStations == 2

\* the global bins of the reduction
ReduceBinIndices == 0 .. 1

StationMeteors(st, j) == st.meteors[j]

StationTap(st, j) == st.area[j] * st.time[j]

\* what one station adds to lm_m_data[~np.isnan(lm_m)]: nothing where its field is NaN
StationLmM(st, j) == IF IsNaN(st.lm_m[j]) THEN 0 ELSE st.lm_m[j] * st.area[j] * st.time[j]

StationRadElev(st, j) ==
    IF IsNaN(st.rad_elev[j]) THEN 0 ELSE st.rad_elev[j] * st.area[j] * st.time[j]

StationRadDist(st, j) ==
    IF IsNaN(st.rad_dist[j]) THEN 0 ELSE st.rad_dist[j] * st.area[j] * st.time[j]

StationAngVel(st, j) ==
    IF IsNaN(st.ang_vel[j]) THEN 0 ELSE st.ang_vel[j] * st.area[j] * st.time[j]

\* the term of one station in a sum over the stations
StationTerm(term, st, j) ==
    CASE term = "meteors" -> StationMeteors(st, j)
      [] term = "tap" -> StationTap(st, j)
      [] term = "lm_m" -> StationLmM(st, j)
      [] term = "rad_elev" -> StationRadElev(st, j)
      [] term = "rad_dist" -> StationRadDist(st, j)
      [] term = "ang_vel" -> StationAngVel(st, j)

RECURSIVE SumStations(_, _, _)
\* the sum of a term over all_fixed_bin_information from entry k on, in bin j
SumStations(term, j, k) ==
    IF k > Len(all_fixed_bin_information) THEN 0
    ELSE StationTerm(term, all_fixed_bin_information[k], j) + SumStations(term, j, k + 1)

\* the exposure (area, hours) of a station in a bin
ExposureValues == {<<0, 0>>, <<2, 1>>}

\* the values of an auxiliary field of a station in a bin
FieldValues == {NaN, 1, 3}

\* the other three fields of a station take the next values of the cycle NaN, 1, 3
NextField(v) == IF IsNaN(v) THEN 1 ELSE IF v = 1 THEN 3 ELSE NaN

\* the arrays of one station as addFixedBins returns them: no meteors where
\* the area or the time is 0
StationArrays(c, ex, f) ==
    [meteors |-> [j \in ReduceBinIndices |-> IF ex[j][1] = 0 \/ ex[j][2] = 0 THEN 0 ELSE c],
     area |-> [j \in ReduceBinIndices |-> ex[j][1]],
     time |-> [j \in ReduceBinIndices |-> ex[j][2]],
     lm_m |-> f,
     rad_elev |-> [j \in ReduceBinIndices |-> NextField(f[j])],
     rad_dist |-> [j \in ReduceBinIndices |-> NextField(NextField(f[j]))],
     ang_vel |-> [j \in ReduceBinIndices |-> f[j]]]

StationChoices ==
    {StationArrays(c, ex, f) :
        c \in LocalCounts, ex \in [ReduceBinIndices -> ExposureValues],
        f \in [ReduceBinIndices -> FieldValues]}

InitReduce ==
    /\ MergeIdle
    /\ sol_bins = <<>>
    /\ AlignIdle
    /\ TallyIdle
    /\ PlotIdle
    /\ CsvIdle
    /\ \E ns \in 1 .. MaxStations : all_fixed_bin_information \in [1 .. ns -> StationChoices]
    /\ all_num_meteors = <<>>
    /\ all_time_area_product = <<>>
    /\ reduced_lm_m_data = <<>>
    /\ reduced_rad_elev_data = <<>>
    /\ reduced_rad_dist_data = <<>>
    /\ reduced_ang_vel_data = <<>>
    /\ reduce_pc = "start"

\* lines 696-751: the sums over the stations and the division by the total
\* time-area product
Reduce ==
    /\ reduce_pc = "start"
    /\ LET tap == [j \in ReduceBinIndices |-> SumStations("tap", j, 1)]
       IN  /\ all_num_meteors' = [j \in ReduceBinIndices |-> SumStations("meteors", j, 1)]
           /\ all_time_area_product' = tap
           /\ reduced_lm_m_data' =
                [j \in ReduceBinIndices |-> Quot(SumStations("lm_m", j, 1), tap[j])]
           /\ reduced_rad_elev_data' =
                [j \in ReduceBinIndices |-> Quot(SumStations("rad_elev", j, 1), tap[j])]
           /\ reduced_rad_dist_data' =
                [j \in ReduceBinIndices |-> Quot(SumStations("rad_dist", j, 1), tap[j])]
           /\ reduced_ang_vel_data' =
                [j \in ReduceBinIndices |-> Quot(SumStations("ang_vel", j, 1), tap[j])]
    /\ reduce_pc' = "reduced"
    /\ UNCHANGED <<mergeVars, alignVars, tallyVars, plotVars, csvVars, all_fixed_bin_information>>

NextReduce == Reduce

SpecReduce == InitReduce /\ [][NextReduce]_vars

\* the stations whose field is defined in bin j
DefinedStations(field, j) ==
    {k \in DOMAIN all_fixed_bin_information : ~IsNaN(all_fixed_bin_information[k][field][j])}

RECURSIVE SumOfStations(_, _, _, _)
\* the sum over the stations of the set S of field*area*time in bin j (field
\* "one" for area*time alone)
SumOfStations(S, field, j, k) ==
    IF k > Len(all_fixed_bin_information) THEN 0
    ELSE LET st == all_fixed_bin_information[k]
             w == IF field = "one" THEN 1 ELSE st[field][j]
         IN  (IF k \in S THEN w * st.area[j] * st.time[j] ELSE 0)
             + SumOfStations(S, field, j, k + 1)

\* two quotients are the same float
SameQuotient(q, r) ==
    \/ IsNaNQ(q) /\ IsNaNQ(r)
    \/ q.den > 0 /\ r.den > 0 /\ q.num * r.den = r.num * q.den

ClaimedReduced(value, field, j) ==
    LET S == DefinedStations(field, j)
    IN  /\ SameQuotient(value, [num |-> SumOfStations(S, field, j, 1),
                                den |-> SumOfStations(S, "one", j, 1)])
        /\ (\E k \in S : StationTap(all_fixed_bin_information[k], j) > 0) => ~IsNaNQ(value)

\* C11 as stated: in every global bin every reduced auxiliary value is the
\* sum of field*area*time over the stations whose field is defined, divided
\* by the sum of area*time over those same stations, and is not NaN when a
\* station with a defined field has positive area*time there.
C11_NaNStationsExcluded ==
    reduce_pc = "reduced" =>
        \A j \in ReduceBinIndices :
            /\ ClaimedReduced(reduced_lm_m_data[j], "lm_m", j)
            /\ ClaimedReduced(reduced_rad_elev_data[j], "rad_elev", j)
            /\ ClaimedReduced(reduced_rad_dist_data[j], "rad_dist", j)
            /\ ClaimedReduced(reduced_ang_vel_data[j], "ang_vel", j)

(***************************************************************************)
(* cameraTally.  Angles in degrees are integers; angles in radians are     *)
(* integers in units of pi/360, so np.radians doubles its argument.  A     *)
(* time-area product is area times hours, in units of 1e8.  An OrderedDict *)
(* is the sequence of its items [key, val] in insertion order.             *)
(***************************************************************************)
Radians(deg) == 2 * deg

DictHas(dict, key) == \E k \in DOMAIN dict : dict[k].key = key

DictGet(dict, key) == dict[CHOOSE k \in DOMAIN dict : dict[k].key = key].val

\* dict[key] = val: a new key goes to the end, an old key keeps its place
DictSet(dict, key, val) ==
    IF DictHas(dict, key)
    THEN [k \in DOMAIN dict |-> IF dict[k].key = key THEN [key |-> key, val |-> val] ELSE dict[k]]
    ELSE Append(dict, [key |-> key, val |-> val])

DictKeys(dict) == {dict[k].key : k \in DOMAIN dict}

\* unwrapSol of RMS.Routines.SolarLongitude on one value: a value below the
\* start of the range is raised by a full turn when that brings it into the range
UnwrapSol(sol, sol_start, sol_end) ==
    IF sol < sol_start /\ sol + Radians(FullTurn) >= sol_start /\ sol + Radians(FullTurn) <= sol_end
    THEN sol + Radians(FullTurn)
    ELSE sol

\* the indices where mask_arr is True: the sub-bins of sol_arr[:-1] in the range
MaskArr(st, sol_start, sol_end) ==
    {j \in DOMAIN st.met_num :
        /\ UnwrapSol(st.sol_arr[j], sol_start, sol_end) >= sol_start
        /\ UnwrapSol(st.sol_arr[j], sol_start, sol_end) <= sol_end}

\* met_num after met_num[(area == 0) | (time_bin == 0)] = 0
MaskedMetNum(st) ==
    [j \in DOMAIN st.met_num |-> IF st.area[j] = 0 \/ st.time_bin[j] = 0 THEN 0 ELSE st.met_num[j]]

\* mutant: met_num is the caller's array itself, so the caller sees the zeroes
CallerMetNumAliased(st) == MaskedMetNum(st)

\* the caller's met_num after an iteration: np.array(met_num) has made a copy,
\* and the zeroes are written into the copy
CallerMetNum(st) == st.met_num

RECURSIVE MaskSum(_, _)
\* np.sum(arr[mask_arr]), arr given as the function from the index to the term
MaskSum(arr, mask) ==
    IF mask = {} THEN 0
    ELSE LET j == CHOOSE x \in mask : TRUE
         IN  arr[j] + MaskSum(arr, mask \ {j})

\* the entry of a station before its numbers are added
StationEntry(tally, station) ==
    IF DictHas(tally, station) THEN DictGet(tally, station) ELSE [meteors |-> 0, tap |-> 0]

\* mutant: the entry is made and added to without the test of np.any(mask_arr)
AddStationAlways(tally, st, sol_start, sol_end) ==
    LET mask == MaskArr(st, sol_start, sol_end)
        old == StationEntry(tally, st.station)
    IN  DictSet(tally, st.station,
                [meteors |-> old.meteors + MaskSum(MaskedMetNum(st), mask),
                 tap |-> old.tap + MaskSum([j \in DOMAIN st.area |-> st.area[j] * st.time_bin[j]], mask)])

\* mutant: the numbers of a station are assigned, not added
AddStationOverwrite(tally, st, sol_start, sol_end) ==
    LET mask == MaskArr(st, sol_start, sol_end)
    IN  IF mask = {} THEN tally
        ELSE DictSet(tally, st.station,
                     [meteors |-> MaskSum(MaskedMetNum(st), mask),
                      tap |-> MaskSum([j \in DOMAIN st.area |-> st.area[j] * st.time_bin[j]], mask)])

\* the body of the loop over the stations, on the tally of one output bin
AddStation(tally, st, sol_start, sol_end) ==
    LET mask == MaskArr(st, sol_start, sol_end)
        old == StationEntry(tally, st.station)
    IN  IF mask = {} THEN tally
        ELSE DictSet(tally, st.station,
                     [meteors |-> old.meteors + MaskSum(MaskedMetNum(st), mask),
                      tap |-> old.tap + MaskSum([j \in DOMAIN st.area |-> st.area[j] * st.time_bin[j]], mask)])

RECURSIVE TallyStations(_, _, _, _, _)
\* the loop over the entries k, k + 1, ... of the station list info
TallyStations(info, tally, k, sol_start, sol_end) ==
    IF k > Len(info) THEN tally
    ELSE TallyStations(info, AddStation(tally, info[k], sol_start, sol_end), k + 1, sol_start, sol_end)

\* the place of x among the items already sorted: behind every item whose key
\* is not smaller
PlaceOf(sorted, x, key) == Cardinality({q \in DOMAIN sorted : sorted[q].val[key] >= x.val[key]})

RECURSIVE SortedTiesReversed(_, _)
\* mutant: a descending sort that puts equal keys in reverse order
SortedTiesReversed(items, key) ==
    IF items = <<>> THEN <<>>
    ELSE LET rest == SortedTiesReversed(SubSeq(items, 1, Len(items) - 1), key)
             x == items[Len(items)]
             p == Cardinality({q \in DOMAIN rest : rest[q].val[key] > x.val[key]})
         IN  SubSeq(rest, 1, p) \o <<x>> \o SubSeq(rest, p + 1, Len(rest))

RECURSIVE Sorted(_, _)
\* sorted(items, key=lambda item: item[1][key], reverse=True): descending and
\* stable, equal keys keep the order of items
Sorted(items, key) ==
    IF items = <<>> THEN <<>>
    ELSE LET rest == Sorted(SubSeq(items, 1, Len(items) - 1), key)
             x == items[Len(items)]
             p == PlaceOf(rest, x, key)
         IN  SubSeq(rest, 1, p) \o <<x>> \o SubSeq(rest, p + 1, Len(rest))

\* len(comb_sol_bins) - 1
NumOutputBins == Cardinality(DOMAIN comb_sol_bins) - 1

(***************************************************************************)
(* Inputs of cameraTally: one or two output bins of 4 degrees from 356;    *)
(* every station has two sub-bins of 2 degrees, inside the first output    *)
(* bin, across the edge of the two, a full turn below the second one, or   *)
(* outside both.                                                           *)
(***************************************************************************)
StationNames == <<"A", "B", "C", "D">>

StationGrids == {356, 358, 0, 348}

\* meteors per sub-bin, area, and hours of the first sub-bin (the second has 1)
StationProfiles == {<<3, 1, 1>>, <<7, 4, 1>>, <<3, 4, 0>>, <<7, 1, 0>>}

\* an entry [station, bin_information] of single_fixed_bin_information
StationInfo(name, base, m, a, t0) ==
    [station |-> name,
     sol_arr |-> [j \in 0 .. 2 |-> Radians(base + 2 * j)],
     met_num |-> [j \in 0 .. 1 |-> m],
     area |-> [j \in 0 .. 1 |-> a],
     time_bin |-> [j \in 0 .. 1 |-> IF j = 0 THEN t0 ELSE 1]]

\* station names of a list: the first entry is A, a later entry repeats a
\* name or takes the next one
NameChoices(ns) ==
    {g \in [1 .. ns -> 1 .. ns] :
        /\ g[1] = 1
        /\ \A k \in 2 .. ns : \E j \in 1 .. (k - 1) : g[k] <= g[j] + 1}

InitTally ==
    /\ MergeIdle
    /\ sol_bins = <<>>
    /\ AlignIdle
    /\ ReduceIdle
    /\ PlotIdle
    /\ CsvIdle
    /\ \E nb \in 1 .. 2 :
        /\ comb_sol_bins = [k \in 0 .. nb |-> 356 + 4 * k]
        /\ comb_sol = [k \in 0 .. (nb - 1) |-> 358 + 4 * k]
    /\ \E ns \in 1 .. MaxStations :
        \E g \in NameChoices(ns), base \in [1 .. ns -> StationGrids],
           prof \in [1 .. ns -> StationProfiles] :
            single_fixed_bin_information =
                [k \in 1 .. ns |->
                    StationInfo(StationNames[g[k]], base[k], prof[k][1], prof[k][2], prof[k][3])]
    /\ bin_tally = <<>>
    /\ bin_tally_topmeteors = <<>>
    /\ bin_tally_toptap = <<>>
    /\ tally_i = 0
    /\ tally_pc = "loop"

\* one iteration of the loop over the output bins
TallyBin ==
    /\ tally_pc = "loop"
    /\ tally_i < NumOutputBins
    /\ LET sol_start == Radians(comb_sol_bins[tally_i])
           sol_end == Radians(comb_sol_bins[tally_i + 1])
           sol_mean == comb_sol[tally_i]
           before == IF DictHas(bin_tally, sol_mean) THEN DictGet(bin_tally, sol_mean) ELSE <<>>
           tallied == TallyStations(single_fixed_bin_information, before, 1, sol_start, sol_end)
       IN  /\ bin_tally' = DictSet(bin_tally, sol_mean, tallied)
           /\ bin_tally_topmeteors' = DictSet(bin_tally_topmeteors, sol_mean, Sorted(tallied, "meteors"))
           /\ bin_tally_toptap' = DictSet(bin_tally_toptap, sol_mean, Sorted(tallied, "tap"))
    /\ single_fixed_bin_information' =
         [k \in DOMAIN single_fixed_bin_information |->
            [single_fixed_bin_information[k] EXCEPT
                !.met_num = CallerMetNum(single_fixed_bin_information[k])]]
    /\ tally_i' = tally_i + 1
    /\ UNCHANGED <<mergeVars, alignVars, reduceVars, plotVars, csvVars, comb_sol, comb_sol_bins, tally_pc>>

\* the return statement
ReturnTally ==
    /\ tally_pc = "loop"
    /\ tally_i >= NumOutputBins
    /\ tally_pc' = "returned"
    /\ UNCHANGED <<mergeVars, alignVars, reduceVars, plotVars, csvVars, tallyInputs, bin_tally, bin_tally_topmeteors,
                   bin_tally_toptap, tally_i>>

NextTally == TallyBin \/ ReturnTally

SpecTally == InitTally /\ [][NextTally]_vars

\* both calls that take arrays of a caller
InitFrame == InitAlign \/ InitTally

NextFrame == NextAlign \/ NextTally

SpecFrame == InitFrame /\ [][NextFrame]_vars

(***************************************************************************)
(* Properties of cameraTally                                               *)
(***************************************************************************)
\* the output bins whose iteration is over
ProcessedBins == 0 .. (tally_i - 1)

\* the entry k of the station list has a sub-bin in the range of output bin b
EntryInRange(info, k, b) ==
    MaskArr(info[k], Radians(comb_sol_bins[b]), Radians(comb_sol_bins[b + 1])) # {}

\* some entry of the station has a sub-bin in the range of output bin b
StationInRange(station, b) ==
    \E k \in DOMAIN single_fixed_bin_information :
        /\ single_fixed_bin_information[k].station = station
        /\ EntryInRange(single_fixed_bin_information, k, b)

TopMeteors(b) == DictGet(bin_tally_topmeteors, comb_sol[b])

TopTap(b) == DictGet(bin_tally_toptap, comb_sol[b])

\* C12: for every output bin processed, a station none of whose sub-bins falls
\* inside the bin's range has no entry in the bin's tally, in either ranking.
C12_AbsentStation ==
    \A b \in ProcessedBins :
        \A k \in DOMAIN single_fixed_bin_information :
            LET station == single_fixed_bin_information[k].station
            IN  ~StationInRange(station, b) =>
                    /\ station \notin DictKeys(TopMeteors(b))
                    /\ station \notin DictKeys(TopTap(b))

C12_Witness ==
    /\ tally_pc = "returned"
    /\ \E b \in ProcessedBins :
        /\ TopMeteors(b) # <<>>
        /\ \E k \in DOMAIN single_fixed_bin_information :
            ~StationInRange(single_fixed_bin_information[k].station, b)

\* the first entry of the station list that inserts the station into bin b
FirstInserted(station, b) ==
    CHOOSE k \in DOMAIN single_fixed_bin_information :
        /\ single_fixed_bin_information[k].station = station
        /\ EntryInRange(single_fixed_bin_information, k, b)
        /\ \A j \in 1 .. (k - 1) :
            ~(/\ single_fixed_bin_information[j].station = station
              /\ EntryInRange(single_fixed_bin_information, j, b))

\* the ranking is in non-increasing order of the key, equal keys in the order
\* of first insertion
RankedBy(rank, key, b) ==
    \A p, q \in DOMAIN rank :
        p < q =>
            /\ rank[p].val[key] >= rank[q].val[key]
            /\ rank[p].val[key] = rank[q].val[key] =>
                FirstInserted(rank[p].key, b) < FirstInserted(rank[q].key, b)

\* C13: for every output bin the first ranking is in non-increasing order of
\* the tallied meteor count and the second in non-increasing order of the
\* tallied time-area product, stations with equal keys in the order of their
\* first insertion.
C13_Rankings ==
    \A b \in ProcessedBins :
        /\ RankedBy(TopMeteors(b), "meteors", b)
        /\ RankedBy(TopTap(b), "tap", b)

\* station A (3 meteors, TAP 1e8) was inserted before station B (7 meteors,
\* TAP 4e8), and B is first in both rankings
C13_Witness ==
    /\ tally_pc = "returned"
    /\ \E b \in ProcessedBins :
        /\ TopMeteors(b) = <<[key |-> "B", val |-> [meteors |-> 7, tap |-> 4]],
                             [key |-> "A", val |-> [meteors |-> 3, tap |-> 1]]>>
        /\ TopTap(b) = TopMeteors(b)
        /\ FirstInserted("A", b) < FirstInserted("B", b)

\* the station list in another order
Reordered(perm) == [k \in DOMAIN single_fixed_bin_information |-> single_fixed_bin_information[perm[k]]]

\* the ranking of output bin b that cameraTally computes for the station list info
RankingOf(info, key, b) ==
    Sorted(TallyStations(info, <<>>, 1, Radians(comb_sol_bins[b]), Radians(comb_sol_bins[b + 1])), key)

\* C14 as stated: for every permutation of the station list both rankings,
\* station order and tallied values, are those of the original order.
C14_OrderIndependent ==
    tally_pc = "returned" =>
        \A perm \in Permutations(DOMAIN single_fixed_bin_information) :
            \A b \in ProcessedBins :
                /\ RankingOf(Reordered(perm), "meteors", b) = TopMeteors(b)
                /\ RankingOf(Reordered(perm), "tap", b) = TopTap(b)

\* the two rankings hold the same stations with the same tallied values, and
\* the same key at every place
SameUpToTies(r1, r2, key) ==
    /\ Len(r1) = Len(r2)
    /\ {r1[p] : p \in DOMAIN r1} = {r2[p] : p \in DOMAIN r2}
    /\ \A p \in DOMAIN r1 : r1[p].val[key] = r2[p].val[key]

\* C14 amended: for every permutation of the station list both rankings hold
\* the same stations with the same tallied values, and the same key at every
\* place; only stations with equal keys may change places.
C14_OrderIndependentUpToTies ==
    tally_pc = "returned" =>
        \A perm \in Permutations(DOMAIN single_fixed_bin_information) :
            \A b \in ProcessedBins :
                /\ SameUpToTies(RankingOf(Reordered(perm), "meteors", b), TopMeteors(b), "meteors")
                /\ SameUpToTies(RankingOf(Reordered(perm), "tap", b), TopTap(b), "tap")

\* two stations with equal meteor counts, in an order that the other order of
\* the station list reverses
C14_Witness ==
    /\ tally_pc = "returned"
    /\ \E b \in ProcessedBins :
        /\ Len(TopMeteors(b)) = 2
        /\ TopMeteors(b)[1].val.meteors = TopMeteors(b)[2].val.meteors
        /\ \E perm \in Permutations(DOMAIN single_fixed_bin_information) :
            RankingOf(Reordered(perm), "meteors", b) = <<TopMeteors(b)[2], TopMeteors(b)[1]>>

\* C16: addFixedBins and cameraTally leave the arrays of their caller as they
\* were: the global grid, the local grid and the station's arrays keep their
\* values in every step of either call.
C16_InputsUnchanged ==
    [][/\ sol_bins' = sol_bins
       /\ alignInputs' = alignInputs
       /\ tallyInputs' = tallyInputs]_vars

\* cameraTally has returned after it tallied a sub-bin with meteors and no
\* observing time, whose count it forces to 0
C16_Witness ==
    /\ tally_pc = "returned"
    /\ \E k \in DOMAIN single_fixed_bin_information, b \in ProcessedBins :
        \E j \in MaskArr(single_fixed_bin_information[k],
                         Radians(comb_sol_bins[b]), Radians(comb_sol_bins[b + 1])) :
            /\ single_fixed_bin_information[k].time_bin[j] = 0
            /\ single_fixed_bin_information[k].met_num[j] > 0
            /\ MaskedMetNum(single_fixed_bin_information[k])[j] = 0

RECURSIVE SumBins(_, _, _)
\* the time-area product tallied for the station in the output bins b, b + 1, ...
SumBins(station, field, b) ==
    IF b >= tally_i THEN 0
    ELSE (IF station \in DictKeys(TopTap(b)) THEN DictGet(TopTap(b), station)[field] ELSE 0)
         + SumBins(station, field, b + 1)

RECURSIVE SumEntries(_, _)
\* the time-area product of all sub-bins of the entries k, k + 1, ... of the station
SumEntries(station, k) ==
    IF k > Len(single_fixed_bin_information) THEN 0
    ELSE LET st == single_fixed_bin_information[k]
         IN  (IF st.station = station
              THEN MaskSum([j \in DOMAIN st.area |-> st.area[j] * st.time_bin[j]], DOMAIN st.area)
              ELSE 0)
             + SumEntries(station, k + 1)

\* C21 as stated: every raw sub-bin of a station is selected for at most one
\* output bin, so over the output bins a station is tallied no more time-area
\* product than its sub-bins hold.
C21_SubBinCountedOnce ==
    /\ \A k \in DOMAIN single_fixed_bin_information :
        \A j \in DOMAIN single_fixed_bin_information[k].met_num :
            \A b1, b2 \in ProcessedBins :
                (/\ j \in MaskArr(single_fixed_bin_information[k],
                                  Radians(comb_sol_bins[b1]), Radians(comb_sol_bins[b1 + 1]))
                 /\ j \in MaskArr(single_fixed_bin_information[k],
                                  Radians(comb_sol_bins[b2]), Radians(comb_sol_bins[b2 + 1])))
                    => b1 = b2
    /\ \A k \in DOMAIN single_fixed_bin_information :
        SumBins(single_fixed_bin_information[k].station, "tap", 0)
            <= SumEntries(single_fixed_bin_information[k].station, 1)

(***************************************************************************)
(* addFixedBins on the grids of the batch pipeline, which are in radians   *)
(* (line 164 divides a difference of edges by 2*np.pi, line 781 converts   *)
(* the edges with np.degrees).  Edges are thousandths of a radian; a bin   *)
(* is 0.035 rad (2 degrees) and the global grid runs across 2*pi.          *)
(***************************************************************************)
\* 2*np.pi in thousandths
TwoPi == 6283

RadGridBases == {6213, 6248}

GlobalGridRad(base, ng) == [k \in 0 .. ng |-> base + 35 * k]

LocalGridRad(base, i, n, off, wrap) ==
    [k \in 0 .. n |-> base + 35 * (i + k) + 17 * off - TwoPi * wrap]

InitAlignRad ==
    /\ MergeIdle
    /\ ReduceIdle
    /\ TallyIdle
    /\ PlotIdle
    /\ CsvIdle
    /\ \E base \in RadGridBases, ng \in 2 .. MaxBins, off \in {0, 1}, wrap \in {0, 1}, q \in AuxPatterns :
        \E i \in 0 .. ng :
            \E n \in 1 .. (IF i = ng THEN 1 ELSE ng - i) :
                \E met \in [0 .. (n - 1) -> LocalCounts], area \in [0 .. (n - 1) -> LocalAreas],
                   time \in [0 .. (n - 1) -> LocalTimes] :
                    /\ wrap = 1 => base + 35 * i + 17 * off >= TwoPi
                    /\ i = ng => off = 1
                    /\ sol_bins = GlobalGridRad(base, ng)
                    /\ small_sol_bins = LocalGridRad(base, i, n, off, wrap)
                    /\ meteor_num_arr = met
                    /\ collecting_area_arr = area
                    /\ obs_time_arr = time
                    /\ lm_m_arr = AuxArray(q, n, area)
                    /\ rad_elev_arr = AuxArray(q + 1, n, area)
                    /\ rad_dist_arr = AuxArray(q + 2, n, area)
                    /\ ang_vel_arr = AuxArray(q + 3, n, area)
    /\ meteor_num_binned = <<>>
    /\ collecting_area_binned = <<>>
    /\ obs_time_binned = <<>>
    /\ lm_m_binned = <<>>
    /\ rad_elev_binned = <<>>
    /\ rad_dist_binned = <<>>
    /\ ang_vel_binned = <<>>
    /\ align_pc = "call"

SpecAlignRad == InitAlignRad /\ [][NextAlign]_vars

\* C22 as stated: on grids in radians, a local grid whose first edge is one
\* full turn (2*pi) below the global edge i, and that fits from there, is
\* placed at index i.
C22_WrapInGridUnit ==
    \A i \in DOMAIN sol_bins :
        (/\ align_pc # "call"
         /\ small_sol_bins[0] + TwoPi = sol_bins[i]
         /\ i + Size(obs_time_arr) <= NumGlobalBins)
            => /\ align_pc = "returned"
               /\ \A k \in DOMAIN obs_time_arr :
                    /\ collecting_area_binned[i + k] = collecting_area_arr[k]
                    /\ obs_time_binned[i + k] = obs_time_arr[k]
                    /\ lm_m_binned[i + k] = lm_m_arr[k]

(***************************************************************************)
(* StationPlotParams.  A colour of the tab10 map is its index.             *)
(***************************************************************************)
\* the largest number of distinct stations given to one object
MaxPlotStations == 31

markers == <<"o", "x", "+">>

color_cycle == [i \in 0 .. 9 |-> i]

\* the colour of a new station when n stations have one
NewColor(n) == color_cycle[n % Size(color_cycle)]

\* mutant: every station gets the first marker
NewMarkerFirst(n) == markers[1]

\* the marker of a new station when n stations have one
NewMarker(n) == markers[((n \div 10) % Len(markers)) + 1]

InitPlot ==
    /\ MergeIdle
    /\ sol_bins = <<>>
    /\ AlignIdle
    /\ ReduceIdle
    /\ TallyIdle
    /\ CsvIdle
    /\ color_dict = <<>>
    /\ marker_dict = <<>>
    /\ plot_station = 0
    /\ plot_result = <<>>
    /\ styled_first = <<>>

\* __call__ for a station that is not in color_dict
PlotNewStation ==
    /\ Len(color_dict) < MaxPlotStations
    /\ LET station == Len(color_dict) + 1
           color == NewColor(Len(color_dict))
           marker == NewMarker(Len(marker_dict))
       IN  /\ color_dict' = Append(color_dict, color)
           /\ marker_dict' = Append(marker_dict, marker)
           /\ plot_station' = station
           /\ plot_result' = [color |-> color, marker |-> marker]
           /\ styled_first' = Append(styled_first, [color |-> color, marker |-> marker])
    /\ UNCHANGED <<mergeVars, alignVars, reduceVars, tallyVars, csvVars>>

\* __call__ for a station that is in color_dict
PlotKnownStation ==
    /\ \E station \in DOMAIN color_dict :
        /\ plot_station' = station
        /\ plot_result' = [color |-> color_dict[station], marker |-> marker_dict[station]]
    /\ UNCHANGED <<mergeVars, alignVars, reduceVars, tallyVars, csvVars, color_dict, marker_dict,
                   styled_first>>

NextPlot == PlotNewStation \/ PlotKnownStation

SpecPlot == InitPlot /\ [][NextPlot]_vars

\* the pair a call for the station returns now
StyleOf(station) == [color |-> color_dict[station], marker |-> marker_dict[station]]

\* every call returns the pair of the station's first call
Memoized ==
    /\ \A station \in DOMAIN color_dict : StyleOf(station) = styled_first[station]
    /\ plot_station # 0 => plot_result = styled_first[plot_station]

\* C24 as stated: the pair returned for a station is the pair of its first
\* call, and any two distinct stations have different pairs, for any number
\* of stations.
C24_DistinctStyles ==
    /\ Memoized
    /\ \A s, t \in DOMAIN color_dict : s # t => StyleOf(s) # StyleOf(t)

\* the number of (color, marker) pairs
NumStyles == Size(color_cycle) * Len(markers)

\* C24 amended: the pair returned for a station is the pair of its first
\* call; the first 30 stations (10 colours times 3 markers) have different
\* pairs, and a later station has the pair of the station 30 places before.
C24_DistinctFirstThirty ==
    /\ Memoized
    /\ \A s, t \in DOMAIN color_dict :
        /\ (s # t /\ s <= NumStyles /\ t <= NumStyles) => StyleOf(s) # StyleOf(t)
        /\ t = s + NumStyles => StyleOf(s) = StyleOf(t)

\* the 31st station has its pair and a later call asks for the first station again
C24_Witness ==
    /\ Len(color_dict) > NumStyles
    /\ plot_station = 1
    /\ plot_result = styled_first[1]
    /\ StyleOf(NumStyles + 1) = StyleOf(1)

(***************************************************************************)
(* The combined CSV file.  A float of the writer is an integer of          *)
(* ten-thousandths (NaN the sentinel); comb_ta_prod is held in units of    *)
(* 1e5, so that _tap/1e9 is the same integer in ten-thousandths.  A field  *)
(* of the file is a record: of kind "empty", of kind "nan", or of kind     *)
(* "num", the decimal number whole.frac with frac written on decimals      *)
(* digits.                                                                 *)
(***************************************************************************)
\* the field between two commas with nothing in between
EmptyField == [kind |-> "empty", whole |-> 0, frac |-> 0, decimals |-> 0]

\* the field nan
NanField == [kind |-> "nan", whole |-> 0, frac |-> 0, decimals |-> 0]

RECURSIVE Pow10(_)
Pow10(k) == IF k = 0 THEN 1 ELSE 10 * Pow10(k - 1)

\* x/scale rounded to the nearest integer, a tie to the even one
RoundHalfEven(x, scale) ==
    LET q == x \div scale
        r == x % scale
    IN  IF 2 * r > scale \/ (2 * r = scale /\ q % 2 = 1) THEN q + 1 ELSE q

\* "{:.df}".format(x)
FormatFixed(x, d) ==
    IF IsNaN(x) THEN NanField
    ELSE IF d >= 4
         THEN [kind |-> "num", whole |-> x \div 10000, frac |-> (x % 10000) * Pow10(d - 4),
               decimals |-> d]
         ELSE LET t == RoundHalfEven(x, Pow10(4 - d))
              IN  [kind |-> "num", whole |-> t \div Pow10(d), frac |-> t % Pow10(d), decimals |-> d]

\* "{:d}".format(int(x))
FormatInt(x) == [kind |-> "num", whole |-> x \div 10000, frac |-> 0, decimals |-> 0]

\* the float np.genfromtxt makes of a field: NaN for an empty field
ParseField(text) ==
    IF text.kind # "num" THEN NaN
    ELSE IF text.decimals >= 4
         THEN text.whole * 10000 + text.frac \div Pow10(text.decimals - 4)
         ELSE text.whole * 10000 + text.frac * Pow10(4 - text.decimals)

\* _tap/1e9
TapInThousandKm2h(tap) == tap

\* the row of one merged bin (line 1225)
DataRow(b) ==
    <<FormatFixed(comb_data.comb_sol_bins[b], 8),
      FormatFixed(comb_data.comb_sol[b], 8),
      FormatFixed(comb_data.comb_flux[b], 3),
      FormatFixed(comb_data.comb_flux_lower[b], 3),
      FormatFixed(comb_data.comb_flux_upper[b], 3),
      FormatFixed(comb_data.comb_flux_lm_m[b], 3),
      FormatFixed(comb_data.comb_flux_lm_m_lower[b], 3),
      FormatFixed(comb_data.comb_flux_lm_m_upper[b], 3),
      FormatFixed(comb_data.comb_zhr[b], 3),
      FormatFixed(comb_data.comb_zhr_lower[b], 3),
      FormatFixed(comb_data.comb_zhr_upper[b], 3),
      FormatInt(comb_data.comb_num_meteors[b]),
      FormatFixed(TapInThousandKm2h(comb_data.comb_ta_prod[b]), 3),
      FormatFixed(comb_data.comb_lm_m[b], 2),
      FormatFixed(comb_data.comb_rad_elev[b], 2),
      FormatFixed(comb_data.comb_rad_dist[b], 2),
      FormatFixed(comb_data.comb_ang_vel[b], 2)>>

\* the last row (line 1249): the closing edge and 16 empty fields
TrailerRow ==
    <<FormatFixed(comb_data.comb_sol_bins[Size(comb_data.comb_sol_bins) - 1], 8)>>
        \o [c \in 1 .. 16 |-> EmptyField]

\* column c (from 0) of the rows of data2, all of them or all but the last
ColumnOf(matrix, c, rows) == [r \in 0 .. (rows - 1) |-> matrix[r + 1][c + 1]]

\* the values of one merged bin given to the writer
CsvFluxValues == {NaN, 5000, 12346}

CsvFluxLmValues == {NaN, 23456}

CsvCountValues == {0, 70000}

CsvTapValues == {0, 41234}

\* a float below x, NaN for NaN
Lower(x) == IF IsNaN(x) THEN NaN ELSE x - 1234

\* a float above x, NaN for NaN
Upper(x) == IF IsNaN(x) THEN NaN ELSE x + 4321

CombData(n, flux, flux_lm, count, tap) ==
    [comb_sol_bins |-> [b \in 0 .. n |-> 3560000 + 40000 * b],
     comb_sol |-> [b \in 0 .. (n - 1) |-> 3581234 + 40000 * b],
     comb_flux |-> flux,
     comb_flux_lower |-> [b \in 0 .. (n - 1) |-> Lower(flux[b])],
     comb_flux_upper |-> [b \in 0 .. (n - 1) |-> Upper(flux[b])],
     comb_flux_lm_m |-> flux_lm,
     comb_flux_lm_m_lower |-> [b \in 0 .. (n - 1) |-> Lower(flux_lm[b])],
     comb_flux_lm_m_upper |-> [b \in 0 .. (n - 1) |-> Upper(flux_lm[b])],
     comb_zhr |-> [b \in 0 .. (n - 1) |-> Upper(Upper(flux[b]))],
     comb_zhr_lower |-> flux,
     comb_zhr_upper |-> [b \in 0 .. (n - 1) |-> Upper(Upper(Upper(flux[b])))],
     comb_num_meteors |-> count,
     comb_ta_prod |-> tap,
     comb_lm_m |-> [b \in 0 .. (n - 1) |-> IF tap[b] = 0 THEN NaN ELSE 51234],
     comb_rad_elev |-> [b \in 0 .. (n - 1) |-> IF tap[b] = 0 THEN NaN ELSE 456789],
     comb_rad_dist |-> [b \in 0 .. (n - 1) |-> IF tap[b] = 0 THEN NaN ELSE 301000],
     comb_ang_vel |-> [b \in 0 .. (n - 1) |-> IF tap[b] = 0 THEN NaN ELSE 12000]]

\* the writer runs only when there is a merged bin (if len(comb_sol))
InitCsv ==
    /\ MergeIdle
    /\ sol_bins = <<>>
    /\ AlignIdle
    /\ ReduceIdle
    /\ TallyIdle
    /\ PlotIdle
    /\ \E n \in 1 .. (MaxBins - 1) :
        \E flux \in [0 .. (n - 1) -> CsvFluxValues], flux_lm \in [0 .. (n - 1) -> CsvFluxLmValues],
           count \in [0 .. (n - 1) -> CsvCountValues], tap \in [0 .. (n - 1) -> CsvTapValues] :
            comb_data = CombData(n, flux, flux_lm, count, tap)
    /\ csv_file = <<>>
    /\ data2 = <<>>
    /\ read_back = <<>>
    /\ csv_pc = "start"

\* lines 1188-1249: the rows after the comment lines of the header
WriteCsv ==
    /\ csv_pc = "start"
    /\ csv_file' = [r \in 1 .. Size(comb_data.comb_sol) |-> DataRow(r - 1)] \o <<TrailerRow>>
    /\ csv_pc' = "written"
    /\ UNCHANGED <<mergeVars, alignVars, reduceVars, tallyVars, plotVars, comb_data, data2, read_back>>

\* lines 903-917: np.genfromtxt and the slices of data2
ReadCsv ==
    /\ csv_pc = "written"
    /\ LET matrix == [r \in DOMAIN csv_file |-> [c \in DOMAIN csv_file[r] |-> ParseField(csv_file[r][c])]]
           rows == Len(csv_file)
       IN  /\ data2' = matrix
           /\ read_back' =
                [comb_sol_bins |-> ColumnOf(matrix, 0, rows),
                 comb_sol |-> ColumnOf(matrix, 1, rows - 1),
                 comb_flux |-> ColumnOf(matrix, 2, rows - 1),
                 comb_flux_lower |-> ColumnOf(matrix, 3, rows - 1),
                 comb_flux_upper |-> ColumnOf(matrix, 4, rows - 1),
                 comb_ta_prod |-> ColumnOf(matrix, 5, rows - 1),
                 comb_num_meteors |-> ColumnOf(matrix, 6, rows - 1)]
    /\ csv_pc' = "read"
    /\ UNCHANGED <<mergeVars, alignVars, reduceVars, tallyVars, plotVars, comb_data, csv_file>>

NextCsv == WriteCsv \/ ReadCsv

SpecCsv == InitCsv /\ [][NextCsv]_vars

\* the float that stands in the file for the value x written on d decimals
Written(x, d) == ParseField(FormatFixed(x, d))

\* C23 as stated: the file has one row per merged bin and a trailer row with
\* only the closing edge, and what is read back as edges, mean solar
\* longitude, flux, flux bounds, meteor count and time-area product of a bin
\* are the values written for that bin.
C23_CsvRoundTrip ==
    csv_pc = "read" =>
        LET n == Size(comb_data.comb_sol)
        IN  /\ Len(csv_file) = n + 1
            /\ \A c \in 2 .. 17 : csv_file[n + 1][c] = EmptyField
            /\ DOMAIN read_back.comb_sol_bins = 0 .. n
            /\ \A b \in 0 .. n :
                read_back.comb_sol_bins[b] = Written(comb_data.comb_sol_bins[b], 8)
            /\ \A b \in 0 .. (n - 1) :
                /\ read_back.comb_sol[b] = Written(comb_data.comb_sol[b], 8)
                /\ read_back.comb_flux[b] = Written(comb_data.comb_flux[b], 3)
                /\ read_back.comb_flux_lower[b] = Written(comb_data.comb_flux_lower[b], 3)
                /\ read_back.comb_flux_upper[b] = Written(comb_data.comb_flux_upper[b], 3)
                /\ read_back.comb_num_meteors[b] = ParseField(FormatInt(comb_data.comb_num_meteors[b]))
                /\ read_back.comb_ta_prod[b] =
                     Written(TapInThousandKm2h(comb_data.comb_ta_prod[b]), 3)

====
